---- MODULE Spec2Model ----
(***************************************************************************)
(* The charge-cycle controller of TestBench/src/main.cpp: the three        *)
(* globals isCharging / chargeStartTime / chargeDurationMs, the handlers   *)
(* handleCharge, handleState, handleStop, the poller monitorChargeState    *)
(* and the loop() that runs them, together with the two collaborators      *)
(* they use: the 32-bit millis() clock and GPIO 17.                         *)
(***************************************************************************)
EXTENDS Integers, Sequences, FiniteSets, TLC

VARIABLES
  isCharging,        \* volatile bool isCharging
  chargeStartTime,   \* unsigned long chargeStartTime (a U32)
  chargeDurationMs,  \* unsigned long chargeDurationMs (always <= 60000)
  requestedTime,     \* local of handleCharge, live between its two steps
  pin,               \* the level digitalRead(CHARGE_PIN) returns
  now,               \* the value millis() returns (a U32)
  pc,                \* where loop() is
  resp,              \* the response server.send() last sent
  lastOp,            \* history: the last handler, poll or pin event
  req,               \* history: the request handleCharge is/was serving
  pre,               \* history: isCharging, pin, duration when lastOp began
  cause,             \* history: what began the current phase
  writes,            \* history: the digitalWrite calls lastOp has issued
  commanded,         \* history: the level of the last digitalWrite
  sinceTick,         \* history: ms since monitorChargeState last ran
  cycleAge,          \* history: true ms since the last accepted start
  advances           \* history: number of clock advances so far

vars == <<isCharging, chargeStartTime, chargeDurationMs, requestedTime, pin,
          now, pc, resp, lastOp, req, pre, cause, writes, commanded,
          sinceTick, cycleAge, advances>>

-----------------------------------------------------------------------------
(* Bounds of the model *)

\* clock advances (Advance or IdleWait) in one behaviour
MaxAdvances == 3
\* longest time loop() lets pass between two monitorChargeState calls
MaxPoll == 400

(* Program constants *)

MinChargeMs == 100
MaxChargeMs == 60000

-----------------------------------------------------------------------------
(* unsigned long on the ESP32 is 32 bits wide.  A value is kept as two      *)
(* 16-bit limbs, hi * 2^16 + lo, so that the arithmetic is exactly the      *)
(* modulo-2^32 arithmetic of the build.                                     *)

Limb == 2^16

U32(n) == [hi |-> (n \div Limb) % Limb, lo |-> n % Limb]

U32Add(a, b) ==
  LET s == a.lo + b.lo
  IN  [hi |-> (a.hi + b.hi + (s \div Limb)) % Limb, lo |-> s % Limb]

U32Sub(a, b) ==
  LET borrow == IF a.lo < b.lo THEN 1 ELSE 0
  IN  [hi |-> (a.hi - b.hi - borrow) % Limb, lo |-> (a.lo - b.lo) % Limb]

U32Gt(a, b) == a.hi > b.hi \/ (a.hi = b.hi /\ a.lo > b.lo)

U32Geq(a, b) == a = b \/ U32Gt(a, b)

\* the number a U32 below 2^31 stands for
U32Val(a) == a.hi * Limb + a.lo

-----------------------------------------------------------------------------
(* Inputs *)

HIGH == "HIGH"
LOW  == "LOW"

\* the texts of the 'time' query argument that are tried
TimeArgs ==
  { <<"9", "9">>, <<"1", "0", "0">>, <<"5", "0", "0">>,
    <<"6", "0", "0", "0", "0">>, <<"6", "0", "0", "0", "1">>,
    <<"-", "1", "0", "0">>, <<"0">>, <<"a", "b", "c">> }

NoReq == [hasArg |-> FALSE, arg |-> <<>>]

Requests == {NoReq} \cup {[hasArg |-> TRUE, arg |-> a] : a \in TimeArgs}

\* millis() when setup() returns
BootTimes == {U32(1000)}

\* clock advances between two steps of loop()
ClockSteps == {1, 99, 200, 400}

\* a long quiet period, 2^32 - 1100 ms, that takes the clock up to its wrap
LongIdle == {[hi |-> Limb - 1, lo |-> Limb - 1100]}

-----------------------------------------------------------------------------
(* String::toInt(), that is atol(): optional blanks, an optional sign, then *)
(* digits up to the first character that is not one; 0 when there are none. *)

Digits == <<"0", "1", "2", "3", "4", "5", "6", "7", "8", "9">>

IsDigit(c) == \E i \in 1..10 : Digits[i] = c

DigitVal(c) == (CHOOSE i \in 1..10 : Digits[i] = c) - 1

RECURSIVE SkipBlanks(_, _)
SkipBlanks(s, i) ==
  IF i <= Len(s) /\ s[i] = " " THEN SkipBlanks(s, i + 1) ELSE i

RECURSIVE ReadDigits(_, _, _)
ReadDigits(s, i, acc) ==
  IF i > Len(s) \/ ~IsDigit(s[i]) THEN acc
  ELSE ReadDigits(s, i + 1, acc * 10 + DigitVal(s[i]))

toInt(s) ==
  LET i      == SkipBlanks(s, 1)
      signed == i <= Len(s) /\ s[i] \in {"-", "+"}
      v      == ReadDigits(s, IF signed THEN i + 1 ELSE i, 0)
  IN  IF signed /\ s[i] = "-" THEN -v ELSE v

-----------------------------------------------------------------------------
(* Responses: the HTTP code, the "status" field and, by a tag, the message; *)
(* for /state the gpio_level, duration_ms and time_remaining_ms fields.     *)

Response(code, status, msg, level, duration, remaining) ==
  [code |-> code, status |-> status, msg |-> msg, level |-> level,
   duration |-> duration, remaining |-> remaining]

NoResp == Response(0, "none", "none", "none", 0, 0)

Snapshot ==
  [isCharging |-> isCharging, pin |-> pin,
   chargeDurationMs |-> chargeDurationMs]

-----------------------------------------------------------------------------
(* The conditions and expressions of the handlers *)

\* (mutation of Dispatching: a request is served while handleCharge runs)
DispatchingReentrant == pc \in {"handleClient", "chargePin"}

\* loop() is at server.handleClient(), which runs at most one handler
Dispatching == pc = "handleClient"

\* (mutation of ChargeBusy: an overdue cycle no longer counts as busy)
ChargeBusyByClock ==
  isCharging /\ ~U32Geq(U32Sub(now, chargeStartTime), U32(chargeDurationMs))

\* (mutation of ChargeBusy: the busy test is lost)
ChargeBusyNever == FALSE

\* handleCharge's first test
ChargeBusy == isCharging

\* (mutation of OutOfRange: the upper bound is not tested)
OutOfRangeLowOnly(t) == t < MinChargeMs

\* (mutation of OutOfRange: the bounds are taken as exclusive)
OutOfRangeExclusive(t) == t <= MinChargeMs \/ t >= MaxChargeMs

\* handleCharge's range test on the parsed value
OutOfRange(t) == t < MinChargeMs \/ t > MaxChargeMs

\* (mutation of Elapsed: a difference below zero is taken as zero)
ElapsedClamped(n, s) == IF U32Gt(s, n) THEN U32(0) ELSE U32Sub(n, s)

\* millis() - chargeStartTime, in unsigned long
Elapsed(n, s) == U32Sub(n, s)

\* (mutation of TimeUp: the longest duration is waited for, not the requested)
TimeUpMaxHold(n, s, d) == U32Geq(Elapsed(n, s), U32(MaxChargeMs))

\* (mutation of TimeUp: > for >=)
TimeUpStrict(n, s, d) == U32Gt(Elapsed(n, s), U32(d))

\* monitorChargeState's test
TimeUp(n, s, d) == U32Geq(Elapsed(n, s), U32(d))

\* (mutation of TimeRemaining: the time elapsed is reported)
TimeRemainingElapsed(d, e) == IF U32Gt(U32(d), e) THEN U32Val(e) ELSE 0

\* handleState's time_remaining_ms
TimeRemaining(d, e) ==
  IF U32Gt(U32(d), e) THEN U32Val(U32Sub(U32(d), e)) ELSE 0

\* (mutation of IdleLevel: the level last written is reported)
IdleLevelLastWritten == commanded

\* handleState's gpio_level when idle: digitalRead(CHARGE_PIN)
IdleLevel == IF pin = HIGH THEN HIGH ELSE LOW

-----------------------------------------------------------------------------
Init ==
  /\ isCharging = FALSE
  /\ chargeStartTime = U32(0)
  /\ chargeDurationMs = 0
  /\ requestedTime = 0
  /\ pin = LOW
  /\ now \in BootTimes
  /\ pc = "handleClient"
  /\ resp = NoResp
  /\ lastOp = "setup"
  /\ req = NoReq
  /\ pre = [isCharging |-> FALSE, pin |-> LOW, chargeDurationMs |-> 0]
  /\ cause = "setup"
  /\ writes = <<LOW>>
  /\ commanded = LOW
  /\ sinceTick = 0
  /\ cycleAge = 0
  /\ advances = 0

\* (mutation of HandleCharge: the parsed value is stored before it is tested)
HandleChargeStoresFirst(r) ==
  /\ Dispatching
  /\ lastOp' = "charge"
  /\ req' = r
  /\ pre' = Snapshot
  /\ writes' = <<>>
  /\ IF ChargeBusy
       THEN /\ resp' = Response(409, "error", "in_progress", "none", 0, 0)
            /\ pc' = "monitor"
            /\ UNCHANGED <<isCharging, chargeStartTime, chargeDurationMs,
                           requestedTime, cause, cycleAge>>
     ELSE IF ~r.hasArg
       THEN /\ resp' = Response(400, "error", "missing", "none", 0, 0)
            /\ pc' = "monitor"
            /\ UNCHANGED <<isCharging, chargeStartTime, chargeDurationMs,
                           requestedTime, cause, cycleAge>>
     ELSE IF OutOfRange(toInt(r.arg))
       THEN /\ resp' = Response(400, "error", "range", "none", 0, 0)
            /\ pc' = "monitor"
            /\ chargeDurationMs' = IF toInt(r.arg) < 0 THEN 0 ELSE toInt(r.arg)
            /\ UNCHANGED <<isCharging, chargeStartTime, requestedTime, cause,
                           cycleAge>>
     ELSE /\ isCharging' = TRUE
          /\ chargeStartTime' = now
          /\ chargeDurationMs' = toInt(r.arg)
          /\ requestedTime' = toInt(r.arg)
          /\ cause' = "start"
          /\ cycleAge' = 0
          /\ resp' = NoResp
          /\ pc' = "chargePin"
  /\ UNCHANGED <<pin, now, commanded, sinceTick, advances>>

\* handleCharge up to the assignment of chargeDurationMs
HandleCharge(r) ==
  /\ Dispatching
  /\ lastOp' = "charge"
  /\ req' = r
  /\ pre' = Snapshot
  /\ writes' = <<>>
  /\ IF ChargeBusy
       THEN /\ resp' = Response(409, "error", "in_progress", "none", 0, 0)
            /\ pc' = "monitor"
            /\ UNCHANGED <<isCharging, chargeStartTime, chargeDurationMs,
                           requestedTime, cause, cycleAge>>
     ELSE IF ~r.hasArg
       THEN /\ resp' = Response(400, "error", "missing", "none", 0, 0)
            /\ pc' = "monitor"
            /\ UNCHANGED <<isCharging, chargeStartTime, chargeDurationMs,
                           requestedTime, cause, cycleAge>>
     ELSE IF OutOfRange(toInt(r.arg))
       THEN /\ resp' = Response(400, "error", "range", "none", 0, 0)
            /\ pc' = "monitor"
            /\ UNCHANGED <<isCharging, chargeStartTime, chargeDurationMs,
                           requestedTime, cause, cycleAge>>
     ELSE /\ isCharging' = TRUE
          /\ chargeStartTime' = now
          /\ chargeDurationMs' = toInt(r.arg)
          /\ requestedTime' = toInt(r.arg)
          /\ cause' = "start"
          /\ cycleAge' = 0
          /\ resp' = NoResp
          /\ pc' = "chargePin"
  /\ UNCHANGED <<pin, now, commanded, sinceTick, advances>>

\* handleCharge from digitalWrite(CHARGE_PIN, HIGH) to its end
ChargePin ==
  /\ pc = "chargePin"
  /\ pin' = HIGH
  /\ commanded' = HIGH
  /\ writes' = Append(writes, HIGH)
  /\ resp' = Response(200, "success", "initiated", "none", requestedTime, 0)
  /\ requestedTime' = 0
  /\ pc' = "monitor"
  /\ UNCHANGED <<isCharging, chargeStartTime, chargeDurationMs, now, lastOp,
                 req, pre, cause, sinceTick, cycleAge, advances>>

\* (mutation of HandleState: an overdue cycle is ended by the status call)
HandleStateSettles ==
  /\ Dispatching
  /\ lastOp' = "state"
  /\ req' = NoReq
  /\ pre' = Snapshot
  /\ IF isCharging /\ TimeUp(now, chargeStartTime, chargeDurationMs)
       THEN /\ pin' = LOW
            /\ commanded' = LOW
            /\ writes' = <<LOW>>
            /\ isCharging' = FALSE
            /\ cause' = "tick"
            /\ resp' = Response(200, "idle", "none", LOW, 0, 0)
       ELSE /\ writes' = <<>>
            /\ resp' = IF isCharging
                 THEN Response(200, "charging", "none", HIGH,
                        chargeDurationMs,
                        TimeRemaining(chargeDurationMs,
                                      Elapsed(now, chargeStartTime)))
                 ELSE Response(200, "idle", "none", IdleLevel, 0, 0)
            /\ UNCHANGED <<pin, commanded, isCharging, cause>>
  /\ pc' = "monitor"
  /\ UNCHANGED <<chargeStartTime, chargeDurationMs, requestedTime, now,
                 sinceTick, cycleAge, advances>>

HandleState ==
  /\ Dispatching
  /\ lastOp' = "state"
  /\ req' = NoReq
  /\ pre' = Snapshot
  /\ writes' = <<>>
  /\ resp' = IF isCharging
               THEN Response(200, "charging", "none", HIGH, chargeDurationMs,
                      TimeRemaining(chargeDurationMs,
                                    Elapsed(now, chargeStartTime)))
               ELSE Response(200, "idle", "none", IdleLevel, 0, 0)
  /\ pc' = "monitor"
  /\ UNCHANGED <<isCharging, chargeStartTime, chargeDurationMs, requestedTime,
                 pin, now, cause, commanded, sinceTick, cycleAge, advances>>

\* (mutation of StopCharging: the flag is cleared, the pin is not written)
StopChargingNoWrite ==
  /\ writes' = <<>>
  /\ isCharging' = FALSE
  /\ cause' = "stop"
  /\ resp' = Response(200, "success", "stopped", "none", 0, 0)
  /\ UNCHANGED <<pin, commanded>>

\* (mutation of StopCharging: the flag is not cleared)
StopChargingKeepsFlag ==
  /\ pin' = LOW
  /\ commanded' = LOW
  /\ writes' = <<LOW>>
  /\ resp' = Response(200, "success", "stopped", "none", 0, 0)
  /\ cause' = "stop"
  /\ UNCHANGED isCharging

\* handleStop when isCharging
StopCharging ==
  /\ pin' = LOW
  /\ commanded' = LOW
  /\ writes' = <<LOW>>
  /\ isCharging' = FALSE
  /\ cause' = "stop"
  /\ resp' = Response(200, "success", "stopped", "none", 0, 0)

\* (mutation of StopIdle: a stop with nothing to stop is refused)
StopIdleRefused ==
  /\ writes' = <<>>
  /\ resp' = Response(409, "error", "not_charging", "none", 0, 0)
  /\ UNCHANGED <<pin, commanded, isCharging, cause>>

\* (mutation of StopIdle: the pin is taken to be LOW already)
StopIdleNoWrite ==
  /\ writes' = <<>>
  /\ resp' = Response(200, "success", "confirmed_low", "none", 0, 0)
  /\ UNCHANGED <<pin, commanded, isCharging, cause>>

\* handleStop otherwise
StopIdle ==
  /\ pin' = LOW
  /\ commanded' = LOW
  /\ writes' = <<LOW>>
  /\ resp' = Response(200, "success", "confirmed_low", "none", 0, 0)
  /\ UNCHANGED <<isCharging, cause>>

HandleStop ==
  /\ Dispatching
  /\ lastOp' = "stop"
  /\ req' = NoReq
  /\ pre' = Snapshot
  /\ IF isCharging THEN StopCharging ELSE StopIdle
  /\ pc' = "monitor"
  /\ UNCHANGED <<chargeStartTime, chargeDurationMs, requestedTime, now,
                 sinceTick, cycleAge, advances>>

\* server.handleClient() with no request for the three handlers
NoRequest ==
  /\ Dispatching
  /\ lastOp' = "none"
  /\ req' = NoReq
  /\ pre' = Snapshot
  /\ writes' = <<>>
  /\ resp' = NoResp
  /\ pc' = "monitor"
  /\ UNCHANGED <<isCharging, chargeStartTime, chargeDurationMs, requestedTime,
                 pin, now, cause, commanded, sinceTick, cycleAge, advances>>

\* (mutation of MonitorChargeState: LOW is written again on every idle poll)
MonitorForcesLow ==
  /\ pc = "monitor"
  /\ lastOp' = "tick"
  /\ req' = NoReq
  /\ pre' = Snapshot
  /\ resp' = NoResp
  /\ IF isCharging /\ ~TimeUp(now, chargeStartTime, chargeDurationMs)
       THEN /\ writes' = <<>>
            /\ UNCHANGED <<pin, commanded, isCharging, cause>>
       ELSE /\ pin' = LOW
            /\ commanded' = LOW
            /\ writes' = <<LOW>>
            /\ isCharging' = FALSE
            /\ cause' = IF isCharging THEN "tick" ELSE cause
  /\ sinceTick' = 0
  /\ pc' = "handleClient"
  /\ UNCHANGED <<chargeStartTime, chargeDurationMs, requestedTime, now,
                 cycleAge, advances>>

\* (mutation of MonitorChargeState: the isCharging test is lost)
MonitorUnguarded ==
  /\ pc = "monitor"
  /\ lastOp' = "tick"
  /\ req' = NoReq
  /\ pre' = Snapshot
  /\ resp' = NoResp
  /\ IF TimeUp(now, chargeStartTime, chargeDurationMs)
       THEN /\ pin' = LOW
            /\ commanded' = LOW
            /\ writes' = <<LOW>>
            /\ isCharging' = FALSE
            /\ cause' = IF isCharging THEN "tick" ELSE cause
       ELSE /\ writes' = <<>>
            /\ UNCHANGED <<pin, commanded, isCharging, cause>>
  /\ sinceTick' = 0
  /\ pc' = "handleClient"
  /\ UNCHANGED <<chargeStartTime, chargeDurationMs, requestedTime, now,
                 cycleAge, advances>>

\* (mutation of MonitorChargeState: a start refused in this turn of loop()
\* is taken up when the cycle ends)
MonitorReplaysRefused ==
  /\ pc = "monitor"
  /\ lastOp' = "tick"
  /\ req' = NoReq
  /\ pre' = Snapshot
  /\ resp' = NoResp
  /\ IF isCharging /\ TimeUp(now, chargeStartTime, chargeDurationMs)
       THEN IF lastOp = "charge" /\ resp.code = 409 /\ req.hasArg
               /\ ~OutOfRange(toInt(req.arg))
              THEN /\ pin' = HIGH
                   /\ commanded' = HIGH
                   /\ writes' = <<LOW, HIGH>>
                   /\ chargeStartTime' = now
                   /\ chargeDurationMs' = toInt(req.arg)
                   /\ cycleAge' = 0
                   /\ cause' = "start"
                   /\ UNCHANGED isCharging
              ELSE /\ pin' = LOW
                   /\ commanded' = LOW
                   /\ writes' = <<LOW>>
                   /\ isCharging' = FALSE
                   /\ cause' = "tick"
                   /\ UNCHANGED <<chargeStartTime, chargeDurationMs,
                                  cycleAge>>
       ELSE /\ writes' = <<>>
            /\ UNCHANGED <<pin, commanded, isCharging, cause,
                           chargeStartTime, chargeDurationMs, cycleAge>>
  /\ sinceTick' = 0
  /\ pc' = "handleClient"
  /\ UNCHANGED <<requestedTime, now, advances>>

MonitorChargeState ==
  /\ pc = "monitor"
  /\ lastOp' = "tick"
  /\ req' = NoReq
  /\ pre' = Snapshot
  /\ resp' = NoResp
  /\ IF isCharging /\ TimeUp(now, chargeStartTime, chargeDurationMs)
       THEN /\ pin' = LOW
            /\ commanded' = LOW
            /\ writes' = <<LOW>>
            /\ isCharging' = FALSE
            /\ cause' = "tick"
       ELSE /\ writes' = <<>>
            /\ UNCHANGED <<pin, commanded, isCharging, cause>>
  /\ sinceTick' = 0
  /\ pc' = "handleClient"
  /\ UNCHANGED <<chargeStartTime, chargeDurationMs, requestedTime, now,
                 cycleAge, advances>>

\* millis() moves on while loop() runs
Advance(delta) ==
  /\ advances < MaxAdvances
  /\ sinceTick + delta <= MaxPoll
  /\ now' = U32Add(now, U32(delta))
  /\ sinceTick' = sinceTick + delta
  /\ cycleAge' = IF isCharging THEN cycleAge + delta ELSE cycleAge
  /\ advances' = advances + 1
  /\ UNCHANGED <<isCharging, chargeStartTime, chargeDurationMs, requestedTime,
                 pin, pc, resp, lastOp, req, pre, cause, writes, commanded>>

\* many turns of loop() with no request while no cycle runs: each is a
\* handleClient that serves nothing and a monitorChargeState that finds
\* isCharging false
IdleWait(d) ==
  /\ Dispatching
  /\ ~isCharging
  /\ advances < MaxAdvances
  /\ now' = U32Add(now, d)
  /\ lastOp' = "tick"
  /\ req' = NoReq
  /\ pre' = Snapshot
  /\ resp' = NoResp
  /\ writes' = <<>>
  /\ sinceTick' = 0
  /\ advances' = advances + 1
  /\ UNCHANGED <<isCharging, chargeStartTime, chargeDurationMs, requestedTime,
                 pin, pc, cause, commanded, cycleAge>>

\* the pin is driven from outside the program
ExternalDrive(level) ==
  /\ pin # level
  /\ pin' = level
  /\ UNCHANGED <<isCharging, chargeStartTime, chargeDurationMs, requestedTime,
                 now, pc, resp, lastOp, req, pre, cause, writes, commanded,
                 sinceTick, cycleAge, advances>>

Next ==
  \/ \E r \in Requests : HandleCharge(r)
  \/ ChargePin
  \/ HandleState
  \/ HandleStop
  \/ NoRequest
  \/ MonitorChargeState
  \/ \E delta \in ClockSteps : Advance(delta)
  \/ \E d \in LongIdle : IdleWait(d)
  \/ \E level \in {HIGH, LOW} : ExternalDrive(level)

Spec == Init /\ [][Next]_vars

-----------------------------------------------------------------------------
(* The program under fair scheduling.  loop() is straight-line code that    *)
(* the Arduino core calls again as soon as it returns, so a turn that can   *)
(* go on does go on, and millis() is driven by a hardware timer.  The clock *)
(* here runs on past the budget of Advance for as long as a cycle is        *)
(* younger than LiveHorizon, which is later than any due time the requests  *)
(* of LiveRequests can set plus the longest gap between polls.              *)
LiveHorizon == 1000

LiveSteps == {200, 400}

LiveRequests ==
  {NoReq} \cup
    {[hasArg |-> TRUE, arg |-> a] : a \in {<<"9","9">>, <<"1","0","0">>,
                                             <<"5","0","0">>}}

\* millis() moves on while loop() runs; no budget while a cycle is young
AdvanceLive(delta) ==
  /\ advances < MaxAdvances \/ (isCharging /\ cycleAge < LiveHorizon)
  /\ sinceTick + delta <= MaxPoll
  /\ now' = U32Add(now, U32(delta))
  /\ sinceTick' = sinceTick + delta
  /\ cycleAge' = IF isCharging THEN cycleAge + delta ELSE cycleAge
  /\ advances' = IF advances < MaxAdvances THEN advances + 1 ELSE advances
  /\ UNCHANGED <<isCharging, chargeStartTime, chargeDurationMs, requestedTime,
                 pin, pc, resp, lastOp, req, pre, cause, writes, commanded>>

\* a /charge request; one that can be accepted arrives only while the clock
\* budget lasts, so that the cycles of a behaviour are finitely many
LiveCharge(r) ==
  /\ isCharging \/ advances < MaxAdvances
  /\ HandleCharge(r)

\* one step of loop(): the handler served, the pin write, or the poll
LoopTurn ==
  \/ \E r \in LiveRequests : LiveCharge(r)
  \/ ChargePin
  \/ HandleState
  \/ HandleStop
  \/ NoRequest
  \/ MonitorChargeState

LiveNext ==
  \/ LoopTurn
  \/ \E delta \in LiveSteps : AdvanceLive(delta)
  \/ \E d \in LongIdle : IdleWait(d)
  \/ \E level \in {HIGH, LOW} : ExternalDrive(level)

LiveSpec ==
  /\ Init
  /\ [][LiveNext]_vars
  /\ WF_vars(LoopTurn)
  /\ WF_vars(\E delta \in LiveSteps : AdvanceLive(delta))

-----------------------------------------------------------------------------
(* The steps of the operations.  lastOp is "setup" or "tick" whenever pc is  *)
(* "handleClient", so the value it takes tells which handler ran.           *)

\* handleCharge runs its tests (start is called)
ChargeStep == pc = "handleClient" /\ pc' # pc /\ lastOp' = "charge"

\* handleState runs (status is called)
StateStep == pc = "handleClient" /\ pc' # pc /\ lastOp' = "state"

\* handleStop runs (stop is called)
StopStep == pc = "handleClient" /\ pc' # pc /\ lastOp' = "stop"

\* monitorChargeState runs (tick is called)
TickStep == pc = "monitor" /\ pc' = "handleClient"

\* a handler or the poller has returned
Completed == pc \in {"handleClient", "monitor"}

InRange(t) == 100 <= t /\ t <= 60000

-----------------------------------------------------------------------------
(* C1 - Mutual exclusion.  A start is accepted only from phase Idle; a     *)
(* start issued while Charging answers 409 (ConflictError) whatever its    *)
(* argument, leaves isCharging, chargeStartTime and chargeDurationMs as    *)
(* they were, writes nothing to the pin and returns at once.               *)
C1_ConflictStep ==
  ChargeStep /\ isCharging =>
    /\ resp'.code = 409
    /\ pc' = "monitor"
    /\ writes' = <<>>
    /\ UNCHANGED <<isCharging, chargeStartTime, chargeDurationMs, pin,
                   commanded>>

C1_AcceptStep ==
  ChargeStep /\ (pc' = "chargePin" \/ chargeStartTime' # chargeStartTime
                 \/ chargeDurationMs' # chargeDurationMs)
    => ~isCharging

C1_MutualExclusion ==
  /\ [][C1_ConflictStep]_vars
  /\ [][C1_AcceptStep]_vars
  /\ [](lastOp = "charge" /\ resp.code = 200 => ~pre.isCharging)

\* a start with a valid duration was refused while a cycle was running
C1_Witness ==
  /\ lastOp = "charge" /\ resp.code = 409 /\ pre.isCharging
  /\ req.hasArg /\ InRange(toInt(req.arg))
  /\ isCharging /\ pc = "monitor"

(* C2 - Range enforcement.  From phase Idle a start succeeds exactly when  *)
(* the time argument is present and its value is in 100..60000, both ends  *)
(* included; every other start from Idle answers 400                       *)
(* (InvalidArgumentError): 99, 60001, zero, a negative value, no argument. *)
C2_RangeEnforcement ==
  lastOp = "charge" /\ Completed /\ ~pre.isCharging =>
    /\ resp.code = 200 <=> (req.hasArg /\ InRange(toInt(req.arg)))
    /\ resp.code # 200 => resp.code = 400
    /\ req.hasArg /\ req.arg \in {<<"1", "0", "0">>, <<"6", "0", "0", "0", "0">>}
         => resp.code = 200 /\ resp.duration = toInt(req.arg)
    /\ ~req.hasArg \/ req.arg \in {<<"9", "9">>, <<"6", "0", "0", "0", "1">>,
                                   <<"0">>, <<"-", "1", "0", "0">>}
         => resp.code = 400

\* start(100), the lower boundary, was accepted from Idle
C2_Witness ==
  /\ lastOp = "charge" /\ Completed /\ ~pre.isCharging
  /\ req = [hasArg |-> TRUE, arg |-> <<"1", "0", "0">>]
  /\ resp.code = 200 /\ isCharging /\ chargeDurationMs = 100

(* C3 - Autonomous completion.  With a cycle of duration d accepted at     *)
(* time T and not stopped, a tick at a time >= T + d ends it: phase Idle   *)
(* and one LOW write; a tick at a time < T + d leaves the phase Charging   *)
(* and chargeStartTime, chargeDurationMs as they were, and writes nothing. *)
(* Once Idle, a tick writes nothing, so the LOW is commanded once.         *)
C3_TickStep ==
  TickStep =>
    IF isCharging /\ cycleAge >= chargeDurationMs
      THEN ~isCharging' /\ writes' = <<LOW>> /\ commanded' = LOW /\ pin' = LOW
      ELSE /\ writes' = <<>>
           /\ UNCHANGED <<isCharging, chargeStartTime, chargeDurationMs, pin,
                          commanded>>

C3_AutonomousCompletion == [][C3_TickStep]_vars

\* a tick at exactly T + d has ended the cycle
C3_Witness ==
  /\ lastOp = "tick" /\ pre.isCharging /\ ~isCharging
  /\ cause = "tick" /\ writes = <<LOW>>
  /\ cycleAge = chargeDurationMs

(* C4 - Idempotent stop.  From Idle and from Charging alike a stop         *)
(* answers 200 "success" and leaves phase Idle and the pin LOW; a stop     *)
(* that follows a stop (only the poller, which finds nothing to do, runs   *)
(* between two handlers) succeeds again and leaves isCharging,             *)
(* chargeStartTime, chargeDurationMs and the pin as the first left them.   *)
C4_StopStep ==
  StopStep =>
    /\ resp'.code = 200 /\ resp'.status = "success"
    /\ ~isCharging' /\ pin' = LOW
    /\ cause = "stop" =>
         /\ UNCHANGED <<isCharging, chargeStartTime, chargeDurationMs>>
         /\ pin = LOW => UNCHANGED pin

C4_IdempotentStop ==
  /\ [][C4_StopStep]_vars
  /\ [](cause = "stop" => ~isCharging)

\* a second stop, after the stop that interrupted a cycle, has succeeded
C4_Witness ==
  /\ lastOp = "stop" /\ ~pre.isCharging /\ cause = "stop"
  /\ resp.code = 200 /\ resp.msg = "confirmed_low"
  /\ ~isCharging /\ pin = LOW

(* C5 - Stop always writes the pin.  Every stop issues exactly the write   *)
(* digitalWrite(CHARGE_PIN, LOW), also when the phase is Idle already; a   *)
(* pin driven HIGH from outside while Idle reads LOW after the stop.       *)
C5_StopStep ==
  StopStep => writes' = <<LOW>> /\ commanded' = LOW /\ pin' = LOW

C5_StopWritesLow == [][C5_StopStep]_vars

\* a stop in phase Idle found the pin HIGH and left it LOW
C5_Witness ==
  /\ lastOp = "stop" /\ ~pre.isCharging /\ pre.pin = HIGH
  /\ writes = <<LOW>> /\ pin = LOW /\ pc = "monitor"

(* C6 - Reporting truthfulness.  Once a stop has interrupted a cycle,      *)
(* every status until the next accepted start reports "idle", whatever     *)
(* the clock shows, and reports LOW unless the pin has been driven from    *)
(* outside since the stop wrote it; none reports "charging".               *)
C6_StateStep ==
  StateStep /\ cause = "stop" =>
    /\ resp'.status = "idle"
    /\ pin = commanded => resp'.level = LOW

C6_StopStep == StopStep /\ isCharging => cause' = "stop" /\ ~isCharging'

C6_ReportingTruthfulness ==
  /\ [][C6_StateStep]_vars
  /\ [][C6_StopStep]_vars
  /\ [][cause = "stop" /\ cause' # "stop" => ChargeStep /\ pc' = "chargePin"]_vars

\* a status after the stop, at a clock value where the interrupted cycle
\* would not yet be due, has reported idle and LOW
C6_Witness ==
  /\ lastOp = "state" /\ cause = "stop" /\ pc = "monitor"
  /\ ~TimeUp(now, chargeStartTime, chargeDurationMs)
  /\ resp.status = "idle" /\ resp.level = LOW

(* C7 - Wraparound safety.  While a cycle runs, millis() - chargeStartTime *)
(* in 32-bit unsigned arithmetic is the true time since the start, also    *)
(* after millis() has wrapped, and the time remaining lies in 0..duration; *)
(* with the clock wrapped, a tick ends the cycle exactly when the true     *)
(* time since the start has reached the duration (the poller runs at       *)
(* least every MaxPoll ms, far less than 2^32).                            *)
Wrapped == U32Gt(chargeStartTime, now)

C7_Elapsed ==
  isCharging =>
    /\ Elapsed(now, chargeStartTime) = U32(cycleAge)
    /\ TimeRemaining(chargeDurationMs, Elapsed(now, chargeStartTime))
         \in 0..chargeDurationMs

C7_TickStep ==
  TickStep /\ isCharging /\ Wrapped =>
    (isCharging' <=> cycleAge < chargeDurationMs)

C7_WraparoundSafety == []C7_Elapsed /\ [][C7_TickStep]_vars

\* a cycle begun before the wrap was ended by a tick after it
C7_Witness ==
  /\ lastOp = "tick" /\ pre.isCharging /\ cause = "tick" /\ writes = <<LOW>>
  /\ Wrapped /\ cycleAge >= chargeDurationMs

(* C8 - Status while Charging.  For a cycle of duration d accepted at T, a *)
(* status at time t answers "charging", HIGH, duration_ms = d and          *)
(* time_remaining_ms = d - (t - T) while t - T < d, else 0.  The scenario: *)
(* start(500) at millis() = 1000, status at 1200 gives 300; the tick at    *)
(* 1600 gives phase Idle and pin LOW; a status in phase Idle with the pin  *)
(* LOW gives idle / LOW.                                                   *)
C8_StateStep ==
  StateStep /\ isCharging =>
    resp' = Response(200, "charging", "none", HIGH, chargeDurationMs,
                     IF cycleAge < chargeDurationMs
                       THEN chargeDurationMs - cycleAge ELSE 0)

C8_Scenario ==
  /\ StateStep /\ isCharging /\ chargeStartTime = U32(1000)
       /\ chargeDurationMs = 500 /\ now = U32(1200)
       => resp'.remaining = 300
  /\ TickStep /\ isCharging /\ chargeStartTime = U32(1000)
       /\ chargeDurationMs = 500 /\ now = U32(1600)
       => ~isCharging' /\ pin' = LOW
  /\ StateStep /\ ~isCharging /\ pin = LOW
       => resp'.status = "idle" /\ resp'.level = LOW

C8_StatusWhileCharging == [][C8_StateStep]_vars /\ [][C8_Scenario]_vars

\* start(500) at 1000, then the status at 1200
C8_Witness ==
  /\ lastOp = "state" /\ pre.isCharging /\ pc = "monitor"
  /\ chargeStartTime = U32(1000) /\ chargeDurationMs = 500 /\ now = U32(1200)
  /\ resp.status = "charging" /\ resp.level = HIGH
  /\ resp.duration = 500 /\ resp.remaining = 300

(* C9 - Status while Idle reports the live pin.  In phase Idle the level a *)
(* status reports is what digitalRead gives at that moment, HIGH included  *)
(* when the program's last write was LOW.                                  *)
C9_StateStep ==
  StateStep /\ ~isCharging =>
    resp'.code = 200 /\ resp'.status = "idle" /\ resp'.level = pin

C9_IdleReportsLivePin == [][C9_StateStep]_vars

\* idle, last write LOW, pin driven HIGH from outside: the status says HIGH
C9_Witness ==
  /\ lastOp = "state" /\ ~pre.isCharging /\ pre.pin = HIGH /\ commanded = LOW
  /\ resp.status = "idle" /\ resp.level = HIGH

(* C10 - An accepted start is one step for every other operation.  In      *)
(* every state in which a handler or the poller begins, isCharging holds   *)
(* exactly when the last pin write was HIGH; the state between the         *)
(* assignment of isCharging and digitalWrite(HIGH) is left only by that    *)
(* write.  The accepted start sets chargeStartTime to millis() and         *)
(* chargeDurationMs to the requested value.                                *)
Agree == isCharging <=> commanded = HIGH

C10_BeginStep == lastOp' # lastOp \/ TickStep => Agree

C10_AcceptStep ==
  ChargeStep /\ ~isCharging /\ isCharging' =>
    /\ pc' = "chargePin"
    /\ chargeStartTime' = now
    /\ chargeDurationMs' = toInt(req'.arg)

C10_WriteStep ==
  pc = "chargePin" /\ pc' # pc =>
    /\ pc' = "monitor" /\ lastOp' = lastOp
    /\ writes' = <<HIGH>> /\ commanded' = HIGH /\ pin' = HIGH
    /\ resp'.code = 200 /\ resp'.duration = chargeDurationMs
    /\ UNCHANGED <<isCharging, chargeStartTime, chargeDurationMs>>

C10_AtomicStart ==
  /\ [](pc # "chargePin" => Agree)
  /\ [](pc = "chargePin" => isCharging /\ lastOp = "charge")
  /\ [][C10_BeginStep]_vars
  /\ [][C10_AcceptStep]_vars
  /\ [][C10_WriteStep]_vars

\* an accepted start has returned: phase Charging and the pin written HIGH
C10_Witness ==
  /\ lastOp = "charge" /\ resp.code = 200 /\ pc = "monitor"
  /\ ~pre.isCharging /\ isCharging /\ writes = <<HIGH>> /\ commanded = HIGH
  /\ chargeDurationMs = toInt(req.arg)

(* C11 - Errors do not mutate state.  A start answered 400 or 409 leaves   *)
(* isCharging, chargeStartTime and chargeDurationMs as they were, writes   *)
(* nothing to the pin and returns at once; a start refused in phase Idle   *)
(* leaves the phase Idle and the last write LOW.                           *)
C11_RejectStep ==
  ChargeStep /\ resp'.code \in {400, 409} =>
    /\ pc' = "monitor"
    /\ writes' = <<>>
    /\ UNCHANGED <<isCharging, chargeStartTime, chargeDurationMs, pin,
                   commanded>>

C11_ErrorsDoNotMutate ==
  /\ [][C11_RejectStep]_vars
  /\ [](lastOp = "charge" /\ resp.code = 400 /\ pc = "monitor"
          => ~isCharging /\ commanded = LOW /\ writes = <<>>)
  /\ [](lastOp = "charge" /\ Completed => resp.code \in {200, 400, 409})

\* a start with an out-of-range duration was refused in phase Idle
C11_Witness ==
  /\ lastOp = "charge" /\ resp.code = 400 /\ resp.msg = "range"
  /\ ~pre.isCharging /\ ~isCharging /\ commanded = LOW /\ pc = "monitor"
  /\ chargeDurationMs = pre.chargeDurationMs

(* C12 - Every cycle ends.  With the clock advancing and loop() running    *)
(* (weak fairness on both), every state with isCharging true is followed   *)
(* by a state with isCharging false and LOW the last level written,        *)
(* whatever /charge, /stop and /state requests come in between.            *)
C12_EveryCycleEnds == isCharging ~> (~isCharging /\ commanded = LOW)

\* the poller has ended a cycle of 500 ms after the clock budget ran out
C12_Witness ==
  /\ lastOp = "tick" /\ cause = "tick" /\ pre.isCharging /\ pre.pin = HIGH
  /\ ~isCharging /\ commanded = LOW /\ writes = <<LOW>>
  /\ chargeDurationMs = 500 /\ cycleAge >= 500 /\ advances = MaxAdvances

(* C13 - Bounded overrun.  With monitorChargeState run at least every      *)
(* MaxPoll ms, a cycle of duration d accepted at T is ended, and the pin   *)
(* commanded LOW, no later than T + d + MaxPoll: at no moment has a        *)
(* running cycle, or the HIGH level the program commanded, lasted longer.  *)
C13_BoundedOverrun ==
  /\ sinceTick <= MaxPoll
  /\ isCharging \/ commanded = HIGH \/ cause = "tick"
       => cycleAge <= chargeDurationMs + MaxPoll

\* a tick ended a cycle later than its due time, within the bound
C13_Witness ==
  /\ lastOp = "tick" /\ pre.isCharging /\ cause = "tick" /\ commanded = LOW
  /\ cycleAge > chargeDurationMs + 300
  /\ cycleAge <= chargeDurationMs + MaxPoll

(* C14 - Duration invariant.  While the phase is Charging,                 *)
(* chargeDurationMs is in 100..60000 and, with chargeStartTime, holds what *)
(* the accepting start stored: chargeStartTime is millis() of that moment  *)
(* and no step of a running cycle changes either.                          *)
C14_KeepStep ==
  isCharging /\ isCharging' =>
    UNCHANGED <<chargeStartTime, chargeDurationMs>>

C14_SetStep ==
  ~isCharging /\ isCharging' =>
    /\ chargeStartTime' = now
    /\ chargeDurationMs' = toInt(req'.arg)
    /\ InRange(chargeDurationMs')

C14_DurationInvariant ==
  /\ [](isCharging => /\ InRange(chargeDurationMs)
                      /\ chargeStartTime = U32Sub(now, U32(cycleAge)))
  /\ [][C14_KeepStep]_vars
  /\ [][C14_SetStep]_vars

\* a start was refused during a 500 ms cycle some time after it began
C14_Witness ==
  /\ isCharging /\ lastOp = "charge" /\ resp.code = 409 /\ cycleAge > 0
  /\ chargeDurationMs = 500 /\ req.hasArg /\ toInt(req.arg) = 100

(* C15 - status is read-only.  A status call leaves isCharging,            *)
(* chargeStartTime and chargeDurationMs as they were and writes nothing to *)
(* the pin; called when the cycle is overdue and the poller has not run    *)
(* yet, it leaves the phase Charging.                                      *)
C15_StateStep ==
  StateStep =>
    /\ writes' = <<>>
    /\ UNCHANGED <<isCharging, chargeStartTime, chargeDurationMs, pin,
                   commanded, now>>

C15_StatusReadOnly == [][C15_StateStep]_vars

\* a status on an overdue cycle has left it running
C15_Witness ==
  /\ lastOp = "state" /\ pc = "monitor" /\ pre.isCharging /\ isCharging
  /\ cycleAge >= chargeDurationMs /\ resp.status = "charging"
  /\ commanded = HIGH /\ writes = <<>>

(* C16 - tick is a no-op when Idle.  In phase Idle monitorChargeState      *)
(* changes none of isCharging, chargeStartTime, chargeDurationMs, writes   *)
(* nothing to the pin, whatever the clock shows: it neither repeats the    *)
(* LOW of a stop nor undoes a HIGH driven from outside.                    *)
C16_TickStep ==
  TickStep /\ ~isCharging =>
    /\ writes' = <<>>
    /\ UNCHANGED <<isCharging, chargeStartTime, chargeDurationMs, pin,
                   commanded, now>>

C16_TickIdleNoOp == [][C16_TickStep]_vars

\* a poll in phase Idle found the pin driven HIGH and wrote nothing
C16_Witness ==
  /\ lastOp = "tick" /\ pc = "handleClient" /\ ~pre.isCharging
  /\ pre.pin = HIGH /\ commanded = LOW /\ writes = <<>> /\ cause = "stop"

(* C17 - No stale timing.  In phase Idle what start, stop, status and tick *)
(* answer and do is fixed by the request, millis() and the pin alone; the  *)
(* chargeStartTime and chargeDurationMs an earlier cycle left behind are   *)
(* not read.  A start accepted after a stop or a finished cycle runs for   *)
(* its own duration from its own start: the poller ends it exactly when    *)
(* the true time since that start has reached that duration.               *)
C17_IdleStep ==
  ~isCharging =>
    /\ StateStep =>
         /\ resp' = Response(200, "idle", "none", pin, 0, 0)
         /\ ~isCharging' /\ pin' = pin /\ writes' = <<>>
    /\ StopStep =>
         /\ resp' = Response(200, "success", "confirmed_low", "none", 0, 0)
         /\ ~isCharging' /\ pin' = LOW /\ writes' = <<LOW>>
    /\ TickStep => ~isCharging' /\ pin' = pin /\ writes' = <<>>
    /\ ChargeStep =>
         IF req'.hasArg /\ InRange(toInt(req'.arg))
           THEN /\ isCharging' /\ pc' = "chargePin" /\ resp' = NoResp
                /\ chargeStartTime' = now
                /\ chargeDurationMs' = toInt(req'.arg)
                /\ pin' = pin /\ writes' = <<>>
           ELSE /\ ~isCharging' /\ pc' = "monitor" /\ resp'.code = 400
                /\ resp'.msg = (IF req'.hasArg THEN "range" ELSE "missing")
                /\ pin' = pin /\ writes' = <<>>

C17_OwnTiming ==
  TickStep /\ isCharging => (isCharging' <=> cycleAge < chargeDurationMs)

C17_NoStaleTiming == [][C17_IdleStep]_vars /\ [][C17_OwnTiming]_vars

\* start(100) was accepted where an earlier cycle had left a duration of 500
C17_Witness ==
  /\ lastOp = "charge" /\ resp.code = 200 /\ pc = "monitor"
  /\ ~pre.isCharging /\ pre.chargeDurationMs = 500
  /\ isCharging /\ chargeDurationMs = 100

(* C18 - No queuing of refused starts.  The phase goes from Idle to        *)
(* Charging, and the pin is written HIGH, only in a start call that is     *)
(* itself accepted; the poll or stop that ends a cycle leaves the phase    *)
(* Idle whatever starts were refused while it ran.                         *)
C18_BeginStep ==
  ~isCharging /\ isCharging' =>
    /\ ChargeStep /\ pc' = "chargePin"
    /\ req'.hasArg /\ InRange(toInt(req'.arg))

C18_HighStep ==
  (commanded' = HIGH /\ commanded # HIGH) \/ (writes' # writes /\ writes' # <<>>
      /\ writes'[Len(writes')] = HIGH)
    => pc = "chargePin" /\ lastOp = "charge" /\ pc' = "monitor"

C18_EndStep ==
  (TickStep \/ StopStep) /\ isCharging =>
    \/ ~isCharging' /\ commanded' = LOW
    \/ UNCHANGED <<isCharging, chargeStartTime, chargeDurationMs, commanded>>

C18_NoQueuedStart ==
  /\ [][C18_BeginStep]_vars
  /\ [][C18_HighStep]_vars
  /\ [][C18_EndStep]_vars

\* a valid start was refused on an overdue cycle: the next poll ends it
C18_Witness ==
  /\ lastOp = "charge" /\ resp.code = 409 /\ pc = "monitor" /\ isCharging
  /\ req.hasArg /\ InRange(toInt(req.arg))
  /\ TimeUp(now, chargeStartTime, chargeDurationMs)

(* C19 - Pin/phase agreement.  From setup (phase Idle, LOW written) on,    *)
(* whenever no handler is in progress the last level written to the pin is *)
(* HIGH exactly when the phase is Charging; HIGH is written only by an     *)
(* accepted start, and every step from Charging to Idle, by the poller or  *)
(* by stop, writes LOW.                                                    *)
C19_EndStep ==
  isCharging /\ ~isCharging' =>
    /\ TickStep \/ StopStep
    /\ writes' = <<LOW>> /\ commanded' = LOW /\ pin' = LOW

C19_HighStep ==
  commanded' = HIGH /\ commanded = LOW =>
    /\ pc = "chargePin" /\ lastOp = "charge" /\ isCharging
    /\ pin' = HIGH /\ writes' = <<HIGH>> /\ resp'.code = 200

C19_PinPhaseAgreement ==
  /\ [](lastOp = "setup" => ~isCharging /\ commanded = LOW)
  /\ [](Completed => (commanded = HIGH <=> isCharging))
  /\ [][C19_EndStep]_vars
  /\ [][C19_HighStep]_vars

\* a stop has ended a running cycle and written LOW
C19_Witness ==
  /\ lastOp = "stop" /\ pre.isCharging /\ pre.pin = HIGH /\ pc = "monitor"
  /\ ~isCharging /\ commanded = LOW /\ pin = LOW /\ writes = <<LOW>>

(* C20 - An overdue cycle still blocks.  The phase goes from Charging to   *)
(* Idle only in monitorChargeState or handleStop, never by a clock         *)
(* advance; loop() serves a request before it polls, so a start that       *)
(* arrives when the cycle is already due is answered 409 and a status at   *)
(* that moment says charging with time_remaining_ms 0.                     *)
C20_EndStep == isCharging /\ ~isCharging' => TickStep \/ StopStep

C20_OverdueStep ==
  isCharging /\ cycleAge >= chargeDurationMs =>
    /\ ChargeStep => resp'.code = 409 /\ isCharging' /\ pc' = "monitor"
    /\ StateStep => /\ resp'.status = "charging" /\ resp'.remaining = 0
                    /\ isCharging'
    /\ now' # now => isCharging'

C20_OverdueStillBlocks == [][C20_EndStep]_vars /\ [][C20_OverdueStep]_vars

\* a valid start arrived after the due time, before the poll, and was refused
C20_Witness ==
  /\ lastOp = "charge" /\ resp.code = 409 /\ pc = "monitor"
  /\ pre.isCharging /\ isCharging /\ cycleAge >= chargeDurationMs
  /\ req.hasArg /\ InRange(toInt(req.arg)) /\ sinceTick > 0

====
